---- MODULE Spec2Model ----
(***************************************************************************)
(* Model of src/core/weechat.c: the process lifecycle of WeeChat.          *)
(*                                                                         *)
(* The state is the file's globals, the heap blocks they point to, the     *)
(* signal dispositions of the process, the process status, and the         *)
(* position of the main thread in weechat_init / weechat_end.  Every call  *)
(* into another subsystem is opaque: it is recorded in "calls", in the     *)
(* order in which the calls are entered.                                   *)
(***************************************************************************)
EXTENDS Integers, Sequences, FiniteSets, TLC

VARIABLES
    phase,                    \* "init" (in weechat_init), "main" (main loop),
                              \* "end" (in weechat_end), "returned"
    ip,                       \* index of the next statement of the phase
    sub,                      \* position inside parse_args / create_home_dir
    calls,                    \* calls entered so far, in order
    rest,                     \* argv[i .. argc-1]: the arguments not read yet
    arg,                      \* the last argv[i] examined by the parser loop
    argv,                     \* argv[1 .. argc-1] of the launch, kept until
                              \* the home directory is settled
    heap,                     \* allocated blocks: [val, frees]
    weechat_argv0,
    weechat_home,
    weechat_local_charset,
    weechat_startup_commands,
    weechat_upgrading,
    weechat_auto_load_plugins,
    weechat_plugin_no_dlclose,
    weechat_no_gnutls,
    weechat_no_gcrypt,
    weechat_upgrade_count,
    weechat_quit,             \* quit request from the user
    weechat_quit_signal,
    sigDisp,                  \* disposition of each signal
    last_signal,              \* the last signal delivered to a handler
    prev_signal,              \* the one delivered to a handler before it
    proc,                     \* "running", "exited", "aborted", "killed"
    exitCode,
    err,                      \* messages written to the error stream
    shutdown_args,            \* arguments of the last weechat_shutdown call
    home_stat,                \* what stat() found at the home path
    ptr_weechat_home,         \* local of weechat_create_home_dir
    config_weechat_home,      \* local of weechat_create_home_dir
    ptr_home,                 \* local of weechat_set_home_path
    upgrade_load_rc,          \* result of upgrade_weechat_load (discarded)
    handoff,                  \* the *.upgrade session files exist
    save_config_on_exit       \* config_look_save_config_on_exit, once read

vars == <<phase, ip, sub, calls, rest, arg, argv, heap, weechat_argv0,
          weechat_home,
          weechat_local_charset, weechat_startup_commands, weechat_upgrading,
          weechat_auto_load_plugins, weechat_plugin_no_dlclose,
          weechat_no_gnutls, weechat_no_gcrypt, weechat_upgrade_count,
          weechat_quit, weechat_quit_signal, sigDisp, last_signal, prev_signal, proc,
          exitCode, err,
          shutdown_args, home_stat, ptr_weechat_home, config_weechat_home,
          ptr_home, upgrade_load_rc, handoff, save_config_on_exit>>

----------------------------------------------------------------------------
(* Bounds *)

MaxArgs == 1        \* arguments after argv[0], every list up to this length
MaxShutdowns == 1   \* weechat_shutdown calls made from outside this file

----------------------------------------------------------------------------
(* Constants of the program and of the C library *)

NULL == 0
EXIT_SUCCESS == 0
EXIT_FAILURE == 1
NO_RETURN_CODE == -1

SIGHUP == 1
SIGINT == 2
SIGQUIT == 3
SIGSEGV == 11
SIGPIPE == 13
SIGTERM == 15

SIG_DFL == "SIG_DFL"
SIG_IGN == "SIG_IGN"

\* A C string is a sequence of pieces; its first character is the first
\* character of its first piece ("~" is always a piece of its own).
Str(s) == <<s>>
EmptyStr == <<>>
TildePath == <<"~", "/.x">>
PlainPath == <<"/w">>
UserHome == <<"/tmp/u">>

Range(s) == {s[k] : k \in DOMAIN s}

SeqsUpTo(S, n) == UNION {[1..k -> S] : k \in 0..n}

----------------------------------------------------------------------------
(* Heap: malloc/strdup/free *)

Alloc(h, v) == Append(h, [val |-> v, frees |-> 0])
NewPtr(h) == Len(h) + 1

\* free(p): free(NULL) is never called by this file (every free is guarded)
\* variant: the block is not released
FreeNone(h, p) == h
Free(h, p) ==
    IF p = NULL THEN h
    ELSE [h EXCEPT ![p].frees = @ + 1]

\* a free of p would release a block that is already released
Dangling(h, p) == p # NULL /\ h[p].frees >= 1

----------------------------------------------------------------------------
(* The statements of weechat_init and weechat_end, in program order.  A    *)
(* statement that is a call is named by the function it calls.            *)

\* variant: the log file is opened before the arguments are parsed
InitProgramLogFirst ==
    << "time", "gettimeofday", "setlocale", "strdup_charset", "utf8_init",
       "util_catch_signal(SIGINT, SIG_IGN)",
       "util_catch_signal(SIGQUIT, SIG_IGN)",
       "util_catch_signal(SIGPIPE, SIG_IGN)",
       "util_catch_signal(SIGSEGV, debug_sigsegv)",
       "util_catch_signal(SIGHUP, weechat_sighup)",
       "util_catch_signal(SIGQUIT, weechat_sigquit)",
       "util_catch_signal(SIGTERM, weechat_sigterm)",
       "hdata_init", "hook_init", "debug_init", "gui_color_init",
       "gui_chat_init", "command_init", "completion_init", "gui_key_init",
       "network_init_gcrypt", "secure_init", "config_weechat_init",
       "log_init", "weechat_parse_args", "weechat_create_home_dir",
       "plugin_api_init", "secure_read", "config_weechat_read",
       "network_init_gnutls", "gui_init_cb", "upgrade_weechat_load",
       "weechat_upgrade_count++", "weechat_startup_message",
       "gui_chat_print_lines_waiting_buffer(NULL)", "weechat_term_check",
       "weechat_locale_check", "command_startup(0)", "plugin_init",
       "command_startup(1)", "gui_layout_window_apply",
       "upgrade_weechat_end" >>

\* variant: the startup message is displayed before the session is loaded
InitProgramBannerFirst ==
    << "time", "gettimeofday", "setlocale", "strdup_charset", "utf8_init",
       "util_catch_signal(SIGINT, SIG_IGN)",
       "util_catch_signal(SIGQUIT, SIG_IGN)",
       "util_catch_signal(SIGPIPE, SIG_IGN)",
       "util_catch_signal(SIGSEGV, debug_sigsegv)",
       "util_catch_signal(SIGHUP, weechat_sighup)",
       "util_catch_signal(SIGQUIT, weechat_sigquit)",
       "util_catch_signal(SIGTERM, weechat_sigterm)",
       "hdata_init", "hook_init", "debug_init", "gui_color_init",
       "gui_chat_init", "command_init", "completion_init", "gui_key_init",
       "network_init_gcrypt", "secure_init", "config_weechat_init",
       "weechat_parse_args", "weechat_create_home_dir", "log_init",
       "plugin_api_init", "secure_read", "config_weechat_read",
       "network_init_gnutls", "gui_init_cb", "weechat_startup_message",
       "upgrade_weechat_load", "weechat_upgrade_count++",
       "gui_chat_print_lines_waiting_buffer(NULL)", "weechat_term_check",
       "weechat_locale_check", "command_startup(0)", "plugin_init",
       "command_startup(1)", "gui_layout_window_apply",
       "upgrade_weechat_end" >>

\* variant: the upgrade is finished before the plugins are initialized
InitProgramUpgradeEndEarly ==
    << "time", "gettimeofday", "setlocale", "strdup_charset", "utf8_init",
       "util_catch_signal(SIGINT, SIG_IGN)",
       "util_catch_signal(SIGQUIT, SIG_IGN)",
       "util_catch_signal(SIGPIPE, SIG_IGN)",
       "util_catch_signal(SIGSEGV, debug_sigsegv)",
       "util_catch_signal(SIGHUP, weechat_sighup)",
       "util_catch_signal(SIGQUIT, weechat_sigquit)",
       "util_catch_signal(SIGTERM, weechat_sigterm)",
       "hdata_init", "hook_init", "debug_init", "gui_color_init",
       "gui_chat_init", "command_init", "completion_init", "gui_key_init",
       "network_init_gcrypt", "secure_init", "config_weechat_init",
       "weechat_parse_args", "weechat_create_home_dir", "log_init",
       "plugin_api_init", "secure_read", "config_weechat_read",
       "network_init_gnutls", "gui_init_cb", "upgrade_weechat_load",
       "weechat_upgrade_count++", "weechat_startup_message",
       "gui_chat_print_lines_waiting_buffer(NULL)", "weechat_term_check",
       "weechat_locale_check", "command_startup(0)", "upgrade_weechat_end",
       "plugin_init", "command_startup(1)", "gui_layout_window_apply" >>

InitProgram ==
    << "time", "gettimeofday", "setlocale", "strdup_charset", "utf8_init",
       "util_catch_signal(SIGINT, SIG_IGN)",
       "util_catch_signal(SIGQUIT, SIG_IGN)",
       "util_catch_signal(SIGPIPE, SIG_IGN)",
       "util_catch_signal(SIGSEGV, debug_sigsegv)",
       "util_catch_signal(SIGHUP, weechat_sighup)",
       "util_catch_signal(SIGQUIT, weechat_sigquit)",
       "util_catch_signal(SIGTERM, weechat_sigterm)",
       "hdata_init", "hook_init", "debug_init", "gui_color_init",
       "gui_chat_init", "command_init", "completion_init", "gui_key_init",
       "network_init_gcrypt", "secure_init", "config_weechat_init",
       "weechat_parse_args", "weechat_create_home_dir", "log_init",
       "plugin_api_init", "secure_read", "config_weechat_read",
       "network_init_gnutls", "gui_init_cb", "upgrade_weechat_load",
       "weechat_upgrade_count++", "weechat_startup_message",
       "gui_chat_print_lines_waiting_buffer(NULL)", "weechat_term_check",
       "weechat_locale_check", "command_startup(0)", "plugin_init",
       "command_startup(1)", "gui_layout_window_apply",
       "upgrade_weechat_end" >>

\* variant: the hooks are removed before the key bindings
EndProgramHooksFirst ==
    << "gui_layout_store_on_exit", "plugin_end", "config_weechat_write",
       "secure_write", "gui_end_cb", "proxy_free_all", "config_weechat_free",
       "secure_free", "config_file_free_all", "unhook_all", "gui_key_end",
       "hdata_end", "secure_end", "string_end", "weechat_shutdown" >>

\* variant: the secured data options are freed before they are written
EndProgramFreeBeforeWrite ==
    << "gui_layout_store_on_exit", "plugin_end", "config_weechat_write",
       "secure_free", "secure_write", "gui_end_cb", "proxy_free_all",
       "config_weechat_free", "config_file_free_all", "gui_key_end",
       "unhook_all", "hdata_end", "secure_end", "string_end",
       "weechat_shutdown" >>

EndProgram ==
    << "gui_layout_store_on_exit", "plugin_end", "config_weechat_write",
       "secure_write", "gui_end_cb", "proxy_free_all", "config_weechat_free",
       "secure_free", "config_file_free_all", "gui_key_end", "unhook_all",
       "hdata_end", "secure_end", "string_end", "weechat_shutdown" >>

\* what weechat_shutdown calls before it releases the strings
ShutdownCalls ==
    << "gui_chat_print_lines_waiting_buffer(stderr)", "log_close",
       "network_end", "debug_end" >>

\* statements that are one unconditional call with no result used here
PlainCalls ==
    { "time", "gettimeofday", "setlocale", "utf8_init",
      "hdata_init", "hook_init", "debug_init", "gui_color_init",
      "gui_chat_init", "command_init", "completion_init", "gui_key_init",
      "network_init_gcrypt", "log_init", "plugin_api_init", "secure_read",
      "config_weechat_read", "network_init_gnutls",
      "weechat_startup_message", "gui_chat_print_lines_waiting_buffer(NULL)",
      "weechat_term_check", "weechat_locale_check", "command_startup(0)",
      "plugin_init", "command_startup(1)",
      "gui_layout_store_on_exit", "plugin_end", "secure_write",
      "proxy_free_all", "config_weechat_free", "secure_free",
      "config_file_free_all", "gui_key_end", "unhook_all", "hdata_end",
      "secure_end", "string_end" }

\* the statement the main thread is about to execute
Cur ==
    IF phase = "init" THEN InitProgram[ip]
    ELSE IF phase = "end" THEN EndProgram[ip]
    ELSE "none"

\* the statement has been executed: go to the next one, or return
Advance ==
    IF phase = "init"
    THEN IF ip = Len(InitProgram)
         THEN phase' = "main" /\ ip' = 1
         ELSE phase' = phase /\ ip' = ip + 1
    ELSE IF ip = Len(EndProgram)
         THEN phase' = "returned" /\ ip' = 1
         ELSE phase' = phase /\ ip' = ip + 1

----------------------------------------------------------------------------
(* Signals *)

Signals == {SIGHUP, SIGINT, SIGQUIT, SIGPIPE, SIGTERM}

\* the handlers: the value each one stores in weechat_quit_signal
weechat_sighup == SIGHUP
\* variant: the handler of SIGQUIT records the signal the process ignores
weechat_sigquit_as_sigint == SIGINT
weechat_sigquit == SIGQUIT
\* variant: the handler of SIGTERM records the wrong signal
weechat_sigterm_as_sighup == SIGHUP
weechat_sigterm == SIGTERM

HandlerStore(h) ==
    CASE h = "weechat_sighup" -> weechat_sighup
      [] h = "weechat_sigquit" -> weechat_sigquit
      [] h = "weechat_sigterm" -> weechat_sigterm

\* the util_catch_signal statements of weechat_init: <<signal, handler>>
CatchOf(stmt) ==
    CASE stmt = "util_catch_signal(SIGINT, SIG_IGN)" -> <<SIGINT, SIG_IGN>>
      [] stmt = "util_catch_signal(SIGQUIT, SIG_IGN)" -> <<SIGQUIT, SIG_IGN>>
      [] stmt = "util_catch_signal(SIGPIPE, SIG_IGN)" -> <<SIGPIPE, SIG_IGN>>
      [] stmt = "util_catch_signal(SIGSEGV, debug_sigsegv)" ->
             <<SIGSEGV, "debug_sigsegv">>
      [] stmt = "util_catch_signal(SIGHUP, weechat_sighup)" ->
             <<SIGHUP, "weechat_sighup">>
      [] stmt = "util_catch_signal(SIGQUIT, weechat_sigquit)" ->
             <<SIGQUIT, "weechat_sigquit">>
      [] stmt = "util_catch_signal(SIGTERM, weechat_sigterm)" ->
             <<SIGTERM, "weechat_sigterm">>

CatchStatements ==
    { "util_catch_signal(SIGINT, SIG_IGN)",
      "util_catch_signal(SIGQUIT, SIG_IGN)",
      "util_catch_signal(SIGPIPE, SIG_IGN)",
      "util_catch_signal(SIGSEGV, debug_sigsegv)",
      "util_catch_signal(SIGHUP, weechat_sighup)",
      "util_catch_signal(SIGQUIT, weechat_sigquit)",
      "util_catch_signal(SIGTERM, weechat_sigterm)" }

----------------------------------------------------------------------------
(* weechat_shutdown (return_code, crash), called with the calls c already  *)
(* made by the calling statement.  The three strings are released and the  *)
(* pointers keep their value.  Releasing a block a second time is          *)
(* undefined: the allocator may abort the process, or go on.               *)

ShutdownOutcome(return_code, crash) ==
    IF crash # 0 THEN "aborted"
    ELSE IF return_code >= 0 THEN "exited"
    ELSE "running"

FreeOutcomes(h) ==
    IF \/ Dangling(h, weechat_argv0)
       \/ Dangling(h, weechat_home)
       \/ Dangling(h, weechat_local_charset)
    THEN {"ok", "abort"}
    ELSE {"ok"}

weechat_shutdown(return_code, crash, c) ==
    /\ calls' = c \o ShutdownCalls
    /\ heap' = Free(Free(Free(heap, weechat_argv0), weechat_home),
                    weechat_local_charset)
    /\ shutdown_args' = <<return_code, crash>>
    /\ \E o \in FreeOutcomes(heap) :
          IF o = "abort"
          THEN proc' = "aborted" /\ exitCode' = exitCode
          ELSE /\ proc' = ShutdownOutcome(return_code, crash)
               /\ exitCode' = IF proc' = "exited" THEN return_code
                              ELSE exitCode

----------------------------------------------------------------------------
(* Inputs *)

\* argv[1..]: the arguments a launch can carry
ArgTokens ==
    { Str("-c"), Str("-d"), Str("--help"), Str("-l"), Str("--no-dlclose"),
      Str("--no-gnutls"), Str("--no-gcrypt"), Str("-p"), Str("-r"),
      Str("--upgrade"), Str("-v"), Str("irc:x") }

\* longer argument lists: value options with their value, an option after
\* another one
LongArgvs ==
    { <<Str("-d"), PlainPath>>, <<Str("--dir"), TildePath>>,
      <<Str("-r"), Str("/quit")>>, <<Str("--upgrade"), Str("-h")>>,
      <<Str("-d"), Str("-p")>>, <<Str("-p"), Str("--upgrade")>>,
      <<Str("-d"), PlainPath, Str("--upgrade")>>,
      <<Str("-d"), PlainPath, Str("-d"), TildePath>>,
      <<Str("-r"), Str("/quit"), Str("--run-command"), Str("/help")>> }

ArgvSet == SeqsUpTo(ArgTokens, MaxArgs) \cup LongArgvs

\* getenv: {} when the variable is unset, {value} when it is set
EnvWeechatHome == { {}, {EmptyStr}, {<<"~", "/e">>} }
EnvHome == { {}, {UserHome} }

\* the compile-time default WEECHAT_HOME
ConfigWeechatHome == { EmptyStr, <<"~", "/.weechat">> }

StatResults == {"absent", "dir", "file"}

\* a local variable: <<>> before it is assigned, <<v>> once it holds v
NotRead == <<>>
Got(v) == <<v>>

----------------------------------------------------------------------------
(* Groups of variables *)

posV == <<phase, ip, sub>>
parseV == <<rest, arg, argv>>
ptrV == <<weechat_argv0, weechat_home, weechat_local_charset,
          weechat_startup_commands>>
flagV == <<weechat_upgrading, weechat_auto_load_plugins,
           weechat_plugin_no_dlclose, weechat_no_gnutls, weechat_no_gcrypt>>
sigV == <<weechat_quit, weechat_quit_signal, sigDisp, last_signal,
          prev_signal>>
exitV == <<proc, exitCode, shutdown_args>>
upgV == <<weechat_upgrade_count, upgrade_load_rc, handoff>>
localV == <<ptr_weechat_home, config_weechat_home, ptr_home>>
envV == <<home_stat, save_config_on_exit, localV>>

Running == proc = "running"

----------------------------------------------------------------------------
(* Init: the process image has just started; nothing of weechat_init has   *)
(* run.  Globals have their static initial values (lines 82-104).          *)

Init ==
    /\ phase = "init" /\ ip = 1 /\ sub = ""
    /\ calls = <<>>
    /\ rest = <<>> /\ arg = EmptyStr /\ argv = <<>>
    /\ heap = <<>>
    /\ weechat_argv0 = NULL
    /\ weechat_home = NULL
    /\ weechat_local_charset = NULL
    /\ weechat_startup_commands = NULL
    /\ weechat_upgrading = 0
    /\ weechat_auto_load_plugins = 1
    /\ weechat_plugin_no_dlclose = 0
    /\ weechat_no_gnutls = 0
    /\ weechat_no_gcrypt = 0
    /\ weechat_upgrade_count = 0
    /\ weechat_quit = 0
    /\ weechat_quit_signal = 0
    /\ sigDisp = [s \in Signals \cup {SIGSEGV} |-> SIG_DFL]
    /\ last_signal = 0
    /\ prev_signal = 0
    /\ proc = "running"
    /\ exitCode = 0
    /\ err = <<>>
    /\ shutdown_args = <<>>
    /\ home_stat = "unknown"
    /\ ptr_weechat_home = NotRead
    /\ config_weechat_home = NotRead
    /\ ptr_home = NotRead
    /\ upgrade_load_rc = "none"
    /\ handoff = TRUE     \* the session files of the capture are on disk
    /\ save_config_on_exit = "unread"

----------------------------------------------------------------------------
(* weechat_init, statement by statement *)

\* a call into another subsystem (or a display routine of this file)
Call ==
    /\ Running
    /\ Cur \in PlainCalls
    /\ calls' = Append(calls, Cur)
    /\ Advance
    /\ UNCHANGED <<sub, parseV, heap, ptrV, flagV, sigV, exitV, upgV, envV,
                   err>>

\* weechat_local_charset = strdup (nl_langinfo (CODESET))
StrdupCharset ==
    /\ Running
    /\ Cur = "strdup_charset"
    /\ calls' = Append(calls, Cur)
    /\ heap' = Alloc(heap, Str("UTF-8"))
    /\ weechat_local_charset' = NewPtr(heap)
    /\ Advance
    /\ UNCHANGED <<sub, parseV, weechat_argv0, weechat_home,
                   weechat_startup_commands, flagV, sigV, exitV, upgV, envV,
                   err>>

\* util_catch_signal (signal, handler)
CatchSignal ==
    /\ Running
    /\ Cur \in CatchStatements
    /\ calls' = Append(calls, Cur)
    /\ sigDisp' = [sigDisp EXCEPT ![CatchOf(Cur)[1]] = CatchOf(Cur)[2]]
    /\ Advance
    /\ UNCHANGED <<sub, parseV, heap, ptrV, flagV, weechat_quit,
                   weechat_quit_signal, last_signal, prev_signal, exitV,
                   upgV, envV, err>>

\* if (!secure_init ()) weechat_shutdown (EXIT_FAILURE, 0);
\* if (!config_weechat_init ()) weechat_shutdown (EXIT_FAILURE, 0);
FatalInit ==
    /\ Running
    /\ Cur \in {"secure_init", "config_weechat_init"}
    /\ \E ok \in BOOLEAN :
          IF ok
          THEN /\ calls' = Append(calls, Cur)
               /\ Advance
               /\ UNCHANGED <<heap, exitV>>
          ELSE /\ weechat_shutdown(EXIT_FAILURE, 0, Append(calls, Cur))
               /\ UNCHANGED <<phase, ip>>
    /\ UNCHANGED <<sub, parseV, ptrV, flagV, sigV, upgV, envV, err>>

----------------------------------------------------------------------------
(* weechat_parse_args *)

\* the option an argument is, by the strcmp chain of the loop
\* variant: the short form -r is not compared
OptionOfNoShortRun(a) ==
    CASE a \in {Str("-c"), Str("--colors")} -> "colors"
      [] a \in {Str("-d"), Str("--dir")} -> "dir"
      [] a \in {Str("-h"), Str("--help")} -> "help"
      [] a \in {Str("-l"), Str("--license")} -> "license"
      [] a = Str("--no-dlclose") -> "no-dlclose"
      [] a = Str("--no-gnutls") -> "no-gnutls"
      [] a = Str("--no-gcrypt") -> "no-gcrypt"
      [] a \in {Str("-p"), Str("--no-plugin")} -> "no-plugin"
      [] a = Str("--run-command") -> "run-command"
      [] a = Str("--upgrade") -> "upgrade"
      [] a \in {Str("-v"), Str("--version")} -> "version"
      [] OTHER -> "other"
OptionOf(a) ==
    CASE a \in {Str("-c"), Str("--colors")} -> "colors"
      [] a \in {Str("-d"), Str("--dir")} -> "dir"
      [] a \in {Str("-h"), Str("--help")} -> "help"
      [] a \in {Str("-l"), Str("--license")} -> "license"
      [] a = Str("--no-dlclose") -> "no-dlclose"
      [] a = Str("--no-gnutls") -> "no-gnutls"
      [] a = Str("--no-gcrypt") -> "no-gcrypt"
      [] a \in {Str("-p"), Str("--no-plugin")} -> "no-plugin"
      [] a \in {Str("-r"), Str("--run-command")} -> "run-command"
      [] a = Str("--upgrade") -> "upgrade"
      [] a \in {Str("-v"), Str("--version")} -> "version"
      [] OTHER -> "other"

\* what each informational option displays before weechat_shutdown
InfoDisplay(o) ==
    CASE o = "colors" -> "gui_color_display_terminal_colors"
      [] o = "help" -> "weechat_display_usage"
      [] o = "license" -> "weechat_display_copyright"
      [] o = "version" -> "version_get_version"

\* variant: -v/--version prints the version and parsing goes on
InfoOptionsNoVersion == {"colors", "help", "license"}
InfoOptions == {"colors", "help", "license", "version"}
ValueOptions == {"dir", "run-command"}

\* the options that set a flag, applied to f = <<weechat_upgrading,
\* weechat_auto_load_plugins, weechat_plugin_no_dlclose, weechat_no_gnutls,
\* weechat_no_gcrypt>>; any other argument leaves the flags alone
\* variant: --upgrade also sets weechat_auto_load_plugins back to 1
SetFlagUpgradeResets(o, f) ==
    << IF o = "upgrade" THEN 1 ELSE f[1],
       IF o = "no-plugin" THEN 0 ELSE IF o = "upgrade" THEN 1 ELSE f[2],
       IF o = "no-dlclose" THEN 1 ELSE f[3],
       IF o = "no-gnutls" THEN 1 ELSE f[4],
       IF o = "no-gcrypt" THEN 1 ELSE f[5] >>
SetFlag(o, f) ==
    << IF o = "upgrade" THEN 1 ELSE f[1],
       IF o = "no-plugin" THEN 0 ELSE f[2],
       IF o = "no-dlclose" THEN 1 ELSE f[3],
       IF o = "no-gnutls" THEN 1 ELSE f[4],
       IF o = "no-gcrypt" THEN 1 ELSE f[5] >>

\* lines 176-181: argv[0] is kept, the options are reset
ParseArgsEnter ==
    /\ Running
    /\ Cur = "weechat_parse_args"
    /\ sub = ""
    /\ \E a \in ArgvSet : rest' = a /\ argv' = a
    /\ calls' = Append(calls, Cur)
    /\ heap' = Alloc(heap, Str("weechat"))
    /\ weechat_argv0' = NewPtr(heap)
    /\ weechat_upgrading' = 0
    /\ weechat_home' = NULL
    /\ weechat_auto_load_plugins' = 1
    /\ weechat_plugin_no_dlclose' = 0
    /\ sub' = "loop"
    /\ UNCHANGED <<phase, ip, arg, weechat_local_charset,
                   weechat_startup_commands, weechat_no_gnutls,
                   weechat_no_gcrypt, sigV, exitV, upgV, envV, err>>

\* one iteration of the loop on argv[i], lines 183-286
ParseArg ==
    /\ Running
    /\ Cur = "weechat_parse_args"
    /\ sub = "loop"
    /\ rest # <<>>
    /\ LET a == Head(rest)
           o == OptionOf(a)
       IN
       /\ arg' = a
       /\ UNCHANGED argv
       /\ IF o \in InfoOptions
          THEN /\ weechat_shutdown(EXIT_SUCCESS, 0,
                                   Append(calls, InfoDisplay(o)))
               /\ UNCHANGED <<rest, ptrV, flagV, err>>
          ELSE IF o \in ValueOptions /\ Len(rest) < 2
          THEN /\ err' = Append(err, "missing argument")
               /\ weechat_shutdown(EXIT_FAILURE, 0, calls)
               /\ UNCHANGED <<rest, ptrV, flagV>>
          ELSE IF o = "dir"
          THEN /\ heap' = Alloc(Free(heap, weechat_home), rest[2])
               /\ weechat_home' = NewPtr(heap)
               /\ rest' = SubSeq(rest, 3, Len(rest))
               /\ UNCHANGED <<calls, exitV, weechat_argv0,
                              weechat_local_charset,
                              weechat_startup_commands, flagV, err>>
          ELSE IF o = "run-command"
          THEN /\ heap' = Alloc(Free(heap, weechat_startup_commands), rest[2])
               /\ weechat_startup_commands' = NewPtr(heap)
               /\ rest' = SubSeq(rest, 3, Len(rest))
               /\ UNCHANGED <<calls, exitV, weechat_argv0, weechat_home,
                              weechat_local_charset, flagV, err>>
          ELSE /\ rest' = Tail(rest)
               /\ weechat_upgrading' = SetFlag(o, flagV)[1]
               /\ weechat_auto_load_plugins' = SetFlag(o, flagV)[2]
               /\ weechat_plugin_no_dlclose' = SetFlag(o, flagV)[3]
               /\ weechat_no_gnutls' = SetFlag(o, flagV)[4]
               /\ weechat_no_gcrypt' = SetFlag(o, flagV)[5]
               /\ UNCHANGED <<calls, heap, exitV, ptrV, err>>
    /\ UNCHANGED <<posV, sigV, upgV, envV>>

\* i = argc: the loop ends and weechat_parse_args returns
ParseArgsReturn ==
    /\ Running
    /\ Cur = "weechat_parse_args"
    /\ sub = "loop"
    /\ rest = <<>>
    /\ sub' = ""
    /\ arg' = EmptyStr
    /\ Advance
    /\ UNCHANGED <<calls, rest, argv, heap, ptrV, flagV, sigV, exitV, upgV, envV,
                   err>>

----------------------------------------------------------------------------
(* weechat_set_home_path (home_path), then go to position "next" of        *)
(* weechat_create_home_dir.  Called only while weechat_home is NULL.       *)

weechat_set_home_path(home_path, c, next) ==
    IF home_path # EmptyStr /\ home_path[1] = "~"
    THEN \E e \in EnvHome :
            /\ ptr_home' = Got(e)
            /\ IF e = {}
               THEN /\ err' = Append(err, "unable to get HOME directory")
                    /\ weechat_shutdown(EXIT_FAILURE, 0, c)
                    /\ UNCHANGED <<weechat_home, sub>>
               ELSE \E h \in e, ok \in BOOLEAN :
                       IF ok      \* malloc (dir_length) succeeded
                       THEN /\ heap' = Alloc(heap, h \o Tail(home_path))
                            /\ weechat_home' = NewPtr(heap)
                            /\ sub' = next
                            /\ calls' = c
                            /\ UNCHANGED <<exitV, err>>
                       ELSE /\ err' = Append(err, "not enough memory")
                            /\ weechat_shutdown(EXIT_FAILURE, 0, c)
                            /\ UNCHANGED <<weechat_home, sub>>
    ELSE /\ UNCHANGED ptr_home
         /\ \E ok \in BOOLEAN :
               IF ok      \* strdup (home_path) succeeded
               THEN /\ heap' = Alloc(heap, home_path)
                    /\ weechat_home' = NewPtr(heap)
                    /\ sub' = next
                    /\ calls' = c
                    /\ UNCHANGED <<exitV, err>>
               ELSE /\ err' = Append(err, "not enough memory")
                    /\ weechat_shutdown(EXIT_FAILURE, 0, c)
                    /\ UNCHANGED <<weechat_home, sub>>

----------------------------------------------------------------------------
(* weechat_create_home_dir *)

\* ptr_weechat_home && ptr_weechat_home[0]
\* variant: the value is used as soon as the variable is set
EnvUsableIfSet(e) == e # {}
EnvUsable(e) == e # {} /\ e # {EmptyStr}

\* S_ISDIR (statinfo.st_mode), when stat () has found something
\* variant: whatever is found at the path is taken for a directory
S_ISDIR_any(st) == TRUE
S_ISDIR(st) == st = "dir"

\* lines 350-355: the environment variable WEECHAT_HOME
HomeFromEnv ==
    /\ Running
    /\ Cur = "weechat_create_home_dir"
    /\ sub = ""
    /\ IF weechat_home = NULL
       THEN \E e \in EnvWeechatHome :
               /\ ptr_weechat_home' = Got(e)
               /\ IF EnvUsable(e)
                  THEN \E v \in e :
                          weechat_set_home_path(v, Append(calls, Cur),
                                                "default")
                  ELSE /\ sub' = "default"
                       /\ calls' = Append(calls, Cur)
                       /\ UNCHANGED <<heap, weechat_home, exitV, err,
                                      ptr_home>>
       ELSE /\ sub' = "default"
            /\ calls' = Append(calls, Cur)
            /\ UNCHANGED <<heap, weechat_home, exitV, err, ptr_weechat_home,
                           ptr_home>>
    /\ UNCHANGED <<phase, ip, parseV, weechat_argv0, weechat_local_charset,
                   weechat_startup_commands, flagV, sigV, upgV, home_stat,
                   save_config_on_exit, config_weechat_home>>

\* lines 357-371: the compile-time default
HomeFromDefault ==
    /\ Running
    /\ Cur = "weechat_create_home_dir"
    /\ sub = "default"
    /\ IF weechat_home = NULL
       THEN \E d \in ConfigWeechatHome :
               /\ config_weechat_home' = Got(d)
               /\ IF d = EmptyStr
                  THEN /\ err' = Append(err, "WEECHAT_HOME is undefined")
                       /\ weechat_shutdown(EXIT_FAILURE, 0, calls)
                       /\ UNCHANGED <<weechat_home, sub, ptr_home>>
                  ELSE weechat_set_home_path(d, calls, "stat")
       ELSE /\ sub' = "stat"
            /\ UNCHANGED <<calls, heap, weechat_home, exitV, err,
                           config_weechat_home, ptr_home>>
    /\ UNCHANGED <<phase, ip, parseV, weechat_argv0, weechat_local_charset,
                   weechat_startup_commands, flagV, sigV, upgV, home_stat,
                   save_config_on_exit, ptr_weechat_home>>

\* lines 373-385: if home already exists, it has to be a directory
HomeStat ==
    /\ Running
    /\ Cur = "weechat_create_home_dir"
    /\ sub = "stat"
    /\ \E st \in StatResults :
          /\ home_stat' = st
          /\ IF st # "absent" /\ ~S_ISDIR(st)
             THEN /\ err' = Append(err, "home is not a directory")
                  /\ weechat_shutdown(EXIT_FAILURE, 0, Append(calls, "stat"))
                  /\ UNCHANGED sub
             ELSE /\ sub' = "mkdir"
                  /\ calls' = Append(calls, "stat")
                  /\ UNCHANGED <<heap, exitV, err>>
    /\ UNCHANGED <<phase, ip, parseV, ptrV, flagV, sigV, upgV,
                   save_config_on_exit, localV>>

\* lines 387-396: create home directory; error is fatal
\* util_mkdir succeeds when the directory is there once it returns
HomeMkdir ==
    /\ Running
    /\ Cur = "weechat_create_home_dir"
    /\ sub = "mkdir"
    /\ \E ok \in BOOLEAN :
          IF ok
          THEN /\ home_stat' = IF home_stat = "absent" THEN "dir"
                               ELSE home_stat
               /\ calls' = Append(calls, "util_mkdir")
               /\ sub' = ""
               /\ Advance
               /\ argv' = <<>>
               /\ ptr_weechat_home' = NotRead
               /\ config_weechat_home' = NotRead
               /\ ptr_home' = NotRead
               /\ UNCHANGED <<heap, exitV, err>>
          ELSE /\ err' = Append(err, "cannot create directory")
               /\ weechat_shutdown(EXIT_FAILURE, 0,
                                   Append(calls, "util_mkdir"))
               /\ UNCHANGED <<posV, home_stat, argv, localV>>
    /\ UNCHANGED <<rest, arg, ptrV, flagV, sigV, upgV, save_config_on_exit>>

----------------------------------------------------------------------------
(* weechat_init, after the home directory *)

\* if (gui_init_cb) (*gui_init_cb) ();
\* if (gui_end_cb) (*gui_end_cb) (1);
GuiCallback ==
    /\ Running
    /\ Cur \in {"gui_init_cb", "gui_end_cb"}
    /\ \E cb \in {NULL, 1} :
          calls' = IF cb # NULL THEN Append(calls, Cur) ELSE calls
    /\ Advance
    /\ UNCHANGED <<sub, parseV, heap, ptrV, flagV, sigV, exitV, upgV, envV,
                   err>>

\* the value weechat_upgrade_count++ leaves in the counter
\* variant: the counter is left alone
IncrUpgradeCountNone(n) == n
IncrUpgradeCount(n) == n + 1

\* if (weechat_upgrading) { upgrade_weechat_load (); ...
\* The result of upgrade_weechat_load is not looked at.
UpgradeLoad ==
    /\ Running
    /\ Cur = "upgrade_weechat_load"
    /\ IF weechat_upgrading # 0
       THEN /\ calls' = Append(calls, Cur)
            /\ \E rc \in {"ok", "failed"} : upgrade_load_rc' = rc
       ELSE UNCHANGED <<calls, upgrade_load_rc>>
    /\ Advance
    /\ UNCHANGED <<sub, parseV, heap, ptrV, flagV, sigV, exitV,
                   weechat_upgrade_count, handoff, envV, err>>

\* ... weechat_upgrade_count++; }
UpgradeCount ==
    /\ Running
    /\ Cur = "weechat_upgrade_count++"
    /\ weechat_upgrade_count' =
           IF weechat_upgrading # 0
           THEN IncrUpgradeCount(weechat_upgrade_count)
           ELSE weechat_upgrade_count
    /\ Advance
    /\ UNCHANGED <<sub, calls, parseV, heap, ptrV, flagV, sigV, exitV,
                   upgrade_load_rc, handoff, envV, err>>

\* if (!weechat_upgrading) gui_layout_window_apply (gui_layout_current, -1);
LayoutApply ==
    /\ Running
    /\ Cur = "gui_layout_window_apply"
    /\ calls' = IF weechat_upgrading = 0 THEN Append(calls, Cur) ELSE calls
    /\ Advance
    /\ UNCHANGED <<sub, parseV, heap, ptrV, flagV, sigV, exitV, upgV, envV,
                   err>>

\* if (weechat_upgrading) upgrade_weechat_end ();
\* upgrade_weechat_end removes the *.upgrade files
UpgradeEnd ==
    /\ Running
    /\ Cur = "upgrade_weechat_end"
    /\ IF weechat_upgrading # 0
       THEN calls' = Append(calls, Cur) /\ handoff' = FALSE
       ELSE UNCHANGED <<calls, handoff>>
    /\ Advance
    /\ UNCHANGED <<sub, parseV, heap, ptrV, flagV, sigV, exitV,
                   weechat_upgrade_count, upgrade_load_rc, envV, err>>

----------------------------------------------------------------------------
(* The main loop and weechat_end *)

\* the caller of weechat_init leaves its main loop and calls weechat_end
WeechatEnd ==
    /\ Running
    /\ phase = "main"
    /\ phase' = "end"
    /\ ip' = 1
    /\ UNCHANGED <<sub, calls, parseV, heap, ptrV, flagV, sigV, exitV, upgV,
                   envV, err>>

\* if (CONFIG_BOOLEAN(config_look_save_config_on_exit))
\*     (void) config_weechat_write ();
ConfigWrite ==
    /\ Running
    /\ Cur = "config_weechat_write"
    /\ \E on \in BOOLEAN :
          /\ save_config_on_exit' = on
          /\ calls' = IF on THEN Append(calls, Cur) ELSE calls
    /\ Advance
    /\ UNCHANGED <<sub, parseV, heap, ptrV, flagV, sigV, exitV, upgV,
                   home_stat, localV, err>>

\* weechat_shutdown (-1, 0) at the end of weechat_end
EndShutdown ==
    /\ Running
    /\ Cur = "weechat_shutdown"
    /\ weechat_shutdown(NO_RETURN_CODE, 0, calls)
    /\ Advance
    /\ UNCHANGED <<sub, parseV, ptrV, flagV, sigV, upgV, envV, err>>

\* weechat_shutdown called from outside this file (the main loop, the
\* caller of weechat_end, a fatal path of another subsystem)
ShutdownCall ==
    /\ Running
    /\ phase \in {"main", "returned"}
    /\ Cardinality({k \in DOMAIN calls : calls[k] = "log_close"})
           < MaxShutdowns
    /\ \E return_code \in {NO_RETURN_CODE, EXIT_SUCCESS, EXIT_FAILURE},
          crash \in {0, 1} :
          weechat_shutdown(return_code, crash, calls)
    /\ UNCHANGED <<posV, parseV, ptrV, flagV, sigV, upgV, envV, err>>

----------------------------------------------------------------------------
(* Delivery of a signal to the process, at any point of the main thread *)

Deliver ==
    /\ Running
    /\ \E s \in Signals :
          IF sigDisp[s] = SIG_DFL
          THEN /\ proc' = "killed"
               /\ UNCHANGED <<weechat_quit_signal, last_signal, prev_signal>>
          ELSE IF sigDisp[s] = SIG_IGN
          THEN UNCHANGED <<proc, weechat_quit_signal, last_signal,
                           prev_signal>>
          ELSE /\ last_signal' = s
               /\ prev_signal' = last_signal
               /\ weechat_quit_signal' = HandlerStore(sigDisp[s])
               /\ UNCHANGED proc
    /\ UNCHANGED <<posV, calls, parseV, heap, ptrV, flagV, weechat_quit,
                   sigDisp, exitCode, shutdown_args, upgV, envV, err>>

----------------------------------------------------------------------------

Next ==
    \/ Call
    \/ StrdupCharset
    \/ CatchSignal
    \/ FatalInit
    \/ ParseArgsEnter
    \/ ParseArg
    \/ ParseArgsReturn
    \/ HomeFromEnv
    \/ HomeFromDefault
    \/ HomeStat
    \/ HomeMkdir
    \/ GuiCallback
    \/ UpgradeLoad
    \/ UpgradeCount
    \/ LayoutApply
    \/ UpgradeEnd
    \/ WeechatEnd
    \/ ConfigWrite
    \/ EndShutdown
    \/ ShutdownCall
    \/ Deliver

Spec == Init /\ [][Next]_vars

----------------------------------------------------------------------------
(* Reading the record of calls *)

InCalls(n) == \E k \in DOMAIN calls : calls[k] = n
Count(n) == Cardinality({k \in DOMAIN calls : calls[k] = n})
\* position of the first call of n
Pos(n) == LET at == {k \in DOMAIN calls : calls[k] = n}
          IN CHOOSE k \in at : \A j \in at : k <= j

\* weechat_init has returned to its caller
InitDone == phase # "init"
\* weechat_init has just returned: its caller is in the main loop
InitReturned == phase = "main"
\* weechat_end has returned to its caller
EndDone == phase = "returned"
\* weechat_end has just returned: its last statement, weechat_shutdown, made
\* the last calls recorded
EndReturned ==
    /\ EndDone
    /\ Len(calls) > Len(ShutdownCalls)
    /\ calls[Len(calls) - Len(ShutdownCalls)] = "string_end"
\* the last util_catch_signal of weechat_init has returned
InstallDone == InCalls("util_catch_signal(SIGTERM, weechat_sigterm)")

----------------------------------------------------------------------------
(* C1 *)

\* the steps of the initializer, grouped as the list of steps groups them
StepGroups ==
    << {"setlocale", "strdup_charset", "utf8_init"},
       CatchStatements,
       {"hdata_init", "hook_init"},
       {"gui_color_init", "gui_chat_init", "command_init", "completion_init",
        "gui_key_init"},
       {"network_init_gcrypt"},
       {"secure_init"},
       {"config_weechat_init"},
       {"weechat_parse_args", "weechat_create_home_dir", "stat", "util_mkdir"},
       {"log_init"},
       {"plugin_api_init"},
       {"secure_read", "config_weechat_read"},
       {"network_init_gnutls"},
       {"gui_init_cb"},
       {"plugin_init"} >>

IsStep(n) == \E r \in DOMAIN StepGroups : n \in StepGroups[r]
Rank(n) == CHOOSE r \in DOMAIN StepGroups : n \in StepGroups[r]
GuiRank == Rank("gui_init_cb")

\* C1: when weechat_init has returned, its steps were entered in the order
\* of the list: no call of a step comes after a call of a step listed later,
\* every step of the list was called exactly once (the UI callback at most
\* once).
C1_InitOrder ==
    InitReturned =>
       \A steps \in {SelectSeq(calls, IsStep)} :
          /\ \A k \in 1..(Len(steps) - 1) :
                Rank(steps[k]) <= Rank(steps[k + 1])
          /\ Count("gui_init_cb") <= 1
          /\ \A r \in DOMAIN StepGroups \ {GuiRank} :
                \A n \in StepGroups[r] : Count(n) = 1

C1_Witness ==
    InitReturned /\ InCalls("gui_init_cb") /\ InCalls("plugin_init")

----------------------------------------------------------------------------
(* C2 *)

\* C2: after every call weechat_shutdown (return_code, crash): with crash
\* set the process has aborted; otherwise with return_code >= 0 it has
\* exited with that code; otherwise it is still running.
C2_ShutdownOutcome ==
    shutdown_args # <<>> =>
       LET return_code == shutdown_args[1]
           crash == shutdown_args[2]
       IN /\ crash # 0 => proc = "aborted"
          /\ (crash = 0 /\ return_code >= 0) =>
                (proc = "exited" /\ exitCode = return_code)
          /\ (crash = 0 /\ return_code < 0) => proc = "running"

----------------------------------------------------------------------------
(* C3 *)

InitOf(s) ==
    CASE s = "plugin" -> "plugin_init"
      [] s = "gui" -> "gui_init_cb"
      [] s = "config" -> "config_weechat_init"
      [] s = "secure" -> "secure_init"
      [] s = "key" -> "gui_key_init"
      [] s = "hook" -> "hook_init"
      [] s = "hdata" -> "hdata_init"
      [] s = "log" -> "log_init"
      [] s = "network" -> "network_init_gcrypt"
      [] s = "debug" -> "debug_init"

TeardownOf(s) ==
    CASE s = "plugin" -> "plugin_end"
      [] s = "gui" -> "gui_end_cb"
      [] s = "config" -> "config_weechat_free"
      [] s = "secure" -> "secure_free"
      [] s = "key" -> "gui_key_end"
      [] s = "hook" -> "unhook_all"
      [] s = "hdata" -> "hdata_end"
      [] s = "log" -> "log_close"
      [] s = "network" -> "network_end"
      [] s = "debug" -> "debug_end"

\* the subsystems weechat_end tears down itself
EndSubsystems == {"plugin", "gui", "config", "secure", "key", "hook", "hdata"}
\* the subsystems weechat_shutdown tears down
ShutdownSubsystems == {"log", "network", "debug"}

\* position of the first x in the sequence q, 0 when x is not in q
Index(q, x) ==
    IF \E k \in DOMAIN q : q[k] = x
    THEN CHOOSE k \in DOMAIN q :
            q[k] = x /\ \A j \in 1..(k - 1) : q[j] # x
    ELSE 0

\* any two subsystems of S whose init and teardown steps were called: the
\* one initialized first is torn down last (up, down: the position of the
\* first init call and of the first teardown call of each subsystem)
ReverseOrderOf(S, up, down) ==
    \A a, b \in S :
       (/\ up[a] > 0 /\ up[b] > 0 /\ down[a] > 0 /\ down[b] > 0
        /\ up[a] < up[b]) => down[b] < down[a]

ReverseOrder(S) ==
    \A up \in {[s \in S |-> Index(calls, InitOf(s))]},
       down \in {[s \in S |-> Index(calls, TeardownOf(s))]} :
       ReverseOrderOf(S, up, down)

\* C3 (as stated): once weechat_end has returned, any two subsystems that
\* have an init and a teardown step were torn down in the reverse of the
\* order in which they were initialized.
C3_ReverseAll ==
    EndReturned => ReverseOrder(EndSubsystems \cup ShutdownSubsystems)

\* C3 (amended): once weechat_end has returned, the subsystems it tears down
\* itself (plugins, UI, configuration, secured data options, keys, hooks,
\* hdata) were torn down in the reverse of the order of their init, and
\* log, network and debug were closed by weechat_shutdown right after
\* string_end, that is after all of them.
C3_ReverseInEnd ==
    EndReturned =>
       /\ ReverseOrder(EndSubsystems)
       /\ SubSeq(calls, Len(calls) - Len(ShutdownCalls) + 1, Len(calls))
             = ShutdownCalls
       /\ \A s \in EndSubsystems :
             InCalls(TeardownOf(s)) =>
                Pos(TeardownOf(s)) < Len(calls) - Len(ShutdownCalls)

C3_Witness ==
    /\ EndReturned
    /\ InCalls("gui_init_cb") /\ InCalls("gui_end_cb")
    /\ InCalls("plugin_init") /\ InCalls("plugin_end")

----------------------------------------------------------------------------
(* C4 *)

\* C4: over any sequence of weechat_shutdown calls, no block (argv[0] image,
\* home path, locale charset) is released more than once.
C4_NoDoubleFree == \A p \in DOMAIN heap : heap[p].frees <= 1

----------------------------------------------------------------------------
(* C5 *)

\* C5: weechat_quit_signal is 0 or the identity of a handled signal, and it
\* is the identity of the last signal delivered to a handler (0 when none
\* was delivered).
C5_LastSignalWins ==
    /\ weechat_quit_signal \in {0, SIGHUP, SIGQUIT, SIGTERM}
    /\ weechat_quit_signal = last_signal

\* SIGTERM, then SIGHUP: SIGHUP is the one recorded
C5_Witness ==
    /\ prev_signal = SIGTERM
    /\ last_signal = SIGHUP
    /\ weechat_quit_signal = SIGHUP

----------------------------------------------------------------------------
(* C6 *)

\* C6: once the handlers are installed, SIGINT, SIGQUIT and SIGPIPE are
\* ignored, so none of them is ever recorded in weechat_quit_signal.
C6_QuitIgnored ==
    /\ InstallDone =>
          \A s \in {SIGINT, SIGQUIT, SIGPIPE} : sigDisp[s] = SIG_IGN
    /\ weechat_quit_signal \notin {SIGINT, SIGQUIT, SIGPIPE}

----------------------------------------------------------------------------
(* C7 *)

\* C7: upgrade_weechat_load is called only in a launch with --upgrade, after
\* secure_read and config_weechat_read; in such a launch the startup
\* message is displayed only after it.
C7_RestoreOrder ==
    \A load \in {Index(calls, "upgrade_weechat_load")},
       message \in {Index(calls, "weechat_startup_message")} :
       /\ load > 0 =>
             /\ weechat_upgrading # 0
             /\ InCalls("secure_read") /\ InCalls("config_weechat_read")
             /\ Pos("secure_read") < load
             /\ Pos("config_weechat_read") < load
       /\ (message > 0 /\ weechat_upgrading # 0) =>
             (load > 0 /\ load < message)
       /\ (message > 0 /\ weechat_upgrading = 0) => load = 0

C7_Witness ==
    InCalls("upgrade_weechat_load") /\ InCalls("weechat_startup_message")

----------------------------------------------------------------------------
(* C8 *)

\* C8: upgrade_weechat_end is called only after a successful restore; after
\* a failed restore the session files are still there and
\* weechat_upgrade_count has not been incremented.
C8_CleanupOnlyAfterSuccess ==
    /\ InCalls("upgrade_weechat_end") => upgrade_load_rc = "ok"
    /\ upgrade_load_rc = "failed" => (handoff /\ weechat_upgrade_count = 0)

----------------------------------------------------------------------------
(* C9 *)

\* C9: when weechat_init has returned: in a launch with --upgrade the
\* restore was called exactly once, weechat_upgrade_count is one more than
\* at process start (0) and the session files are gone; in a launch without
\* it the counter is unchanged and neither restore nor cleanup was called.
C9_UpgradeOnce ==
    InitDone =>
       IF weechat_upgrading # 0
       THEN /\ Count("upgrade_weechat_load") = 1
            /\ weechat_upgrade_count = 1
            /\ ~handoff
       ELSE /\ weechat_upgrade_count = 0
            /\ ~InCalls("upgrade_weechat_load")
            /\ ~InCalls("upgrade_weechat_end")
            /\ handoff

C9_Witness == InitDone /\ weechat_upgrading # 0 /\ upgrade_load_rc = "ok"

----------------------------------------------------------------------------
(* C10 *)

InfoArgs ==
    { Str("-c"), Str("--colors"), Str("-h"), Str("--help"),
      Str("-l"), Str("--license"), Str("-v"), Str("--version") }

\* the steps of weechat_init that come before / after weechat_parse_args
StepsBeforeParse ==
    { "hdata_init", "hook_init", "debug_init", "gui_color_init",
      "gui_chat_init", "command_init", "completion_init", "gui_key_init",
      "network_init_gcrypt", "secure_init", "config_weechat_init" }
StepsAfterParse ==
    { "weechat_create_home_dir", "log_init", "plugin_api_init", "secure_read",
      "config_weechat_read", "network_init_gnutls", "gui_init_cb",
      "upgrade_weechat_load", "plugin_init" }

InfoExit == arg \in InfoArgs => (proc = "exited" /\ exitCode = EXIT_SUCCESS)

\* C10 (as stated): when the parser has reached -h, -v, -l or -c the process
\* has exited with the success code and no init entry point of any
\* subsystem was called before.
C10_NoInitBeforeInfoExit ==
    /\ InfoExit
    /\ arg \in InfoArgs =>
          \A n \in StepsBeforeParse \cup StepsAfterParse : ~InCalls(n)

\* C10 (amended): when the parser has reached -h, -v, -l or -c the process
\* has exited with the success code and no step of weechat_init that follows
\* weechat_parse_args was entered; the steps that precede it (hdata_init ..
\* config_weechat_init) have all been called.
C10_NoStepAfterInfoExit ==
    /\ InfoExit
    /\ arg \in InfoArgs =>
          /\ \A n \in StepsAfterParse : ~InCalls(n)
          /\ \A n \in StepsBeforeParse : InCalls(n)

C10_Witness == arg = Str("-v") /\ proc = "exited"

----------------------------------------------------------------------------
(* C11 *)

\* the arguments that take a value
ValueArgs == {Str("-d"), Str("--dir"), Str("-r"), Str("--run-command")}

\* the usage error has been printed: the process has exited with the failure
\* code, the message is the only one on the error stream, the argument read
\* last is a -d/--dir/-r/--run-command that is the last one of the list, and
\* no step of weechat_init that follows the parser was entered
MissingValueExit ==
    "missing argument" \in Range(err) =>
       /\ proc = "exited" /\ exitCode = EXIT_FAILURE
       /\ err = <<"missing argument">>
       /\ arg \in ValueArgs
       /\ rest = <<arg>>
       /\ argv # <<>> /\ argv[Len(argv)] = arg
       /\ \A n \in StepsAfterParse : ~InCalls(n)

\* an iteration of the parser loop on -d/--dir/-r/--run-command as the last
\* argument prints the usage error, once, and ends the process with the
\* failure code; the argument list is not read further
MissingValueStep ==
    (ParseArg /\ Len(rest) = 1 /\ Head(rest) \in ValueArgs) =>
       /\ proc' = "exited" /\ exitCode' = EXIT_FAILURE
       /\ err = <<>> /\ err' = <<"missing argument">>
       /\ rest' = rest

\* C11: when -d/--dir or -r/--run-command is the last argument, the process
\* terminates with the failure code, exactly one usage error is printed to
\* the error stream, and parsing does not continue past that flag.
C11_MissingValue == []MissingValueExit /\ [][MissingValueStep]_vars

C11_Witness ==
    /\ arg = Str("-r") /\ rest = <<Str("-r")>>
    /\ proc = "exited" /\ exitCode = EXIT_FAILURE
    /\ err = <<"missing argument">>

----------------------------------------------------------------------------
(* C12 *)

\* the values given to option o in the argument list r, from left to right:
\* -d/--dir and -r/--run-command take the argument that follows them
RECURSIVE ValuesOf(_, _)
ValuesOf(o, r) ==
    IF r = <<>> THEN <<>>
    ELSE IF OptionOf(r[1]) \in ValueOptions /\ Len(r) >= 2
    THEN (IF OptionOf(r[1]) = o THEN <<r[2]>> ELSE <<>>)
            \o ValuesOf(o, SubSeq(r, 3, Len(r)))
    ELSE ValuesOf(o, Tail(r))

\* the last element of q, if any
LastOf(q) == IF q = <<>> THEN <<>> ELSE <<q[Len(q)]>>
\* the string p points to, if any
StoredString(p) == IF p = NULL THEN <<>> ELSE <<heap[p].val>>

\* the loop of weechat_parse_args has read the whole list (i = argc)
ParseLoopEnded ==
    Running /\ Cur = "weechat_parse_args" /\ sub = "loop" /\ rest = <<>>

\* the blocks no global pointer points to
Unreferenced ==
    DOMAIN heap \ {weechat_argv0, weechat_home, weechat_local_charset,
                   weechat_startup_commands}

\* C12: when the parser has read the whole list, weechat_home is the value
\* of the last -d/--dir (NULL if there is none) and
\* weechat_startup_commands the value of the last -r/--run-command; each
\* value was stored once, the two last values are still allocated and every
\* earlier value was released exactly once.
C12_LastWriteWins ==
    ParseLoopEnded =>
       LET dirs == ValuesOf("dir", argv)
           cmds == ValuesOf("run-command", argv)
           earlier(q) == IF q = <<>> THEN 0 ELSE Len(q) - 1
       IN /\ StoredString(weechat_home) = LastOf(dirs)
          /\ StoredString(weechat_startup_commands) = LastOf(cmds)
          /\ weechat_home # NULL => heap[weechat_home].frees = 0
          /\ weechat_startup_commands # NULL =>
                heap[weechat_startup_commands].frees = 0
          /\ Cardinality(Unreferenced) = earlier(dirs) + earlier(cmds)
          /\ \A p \in Unreferenced :
                /\ heap[p].frees = 1
                /\ \E k \in 1..earlier(dirs) + earlier(cmds) :
                      heap[p].val =
                         (SubSeq(dirs, 1, earlier(dirs))
                             \o SubSeq(cmds, 1, earlier(cmds)))[k]

C12_Witness ==
    /\ ParseLoopEnded
    /\ Len(ValuesOf("dir", argv)) >= 2
    /\ heap[weechat_home].val = TildePath
    /\ \E p \in Unreferenced : heap[p].val = PlainPath /\ heap[p].frees = 1

----------------------------------------------------------------------------
(* C13 *)

\* weechat_parse_args as a function of the argument list: the configuration
\* it leaves and how it ends.  c.home and c.commands: <<>> for NULL, <<v>>
\* for the string v.
ParseStart ==
    [ home |-> <<>>, commands |-> <<>>, flags |-> <<0, 1, 0, 0, 0>>,
      outcome |-> [proc |-> "running", code |-> 0] ]

RECURSIVE ParseFrom(_, _)
ParseFrom(c, r) ==
    IF r = <<>> THEN c
    ELSE LET o == OptionOf(r[1])
         IN IF o \in InfoOptions
            THEN [c EXCEPT !.outcome =
                              [proc |-> "exited", code |-> EXIT_SUCCESS]]
            ELSE IF o \in ValueOptions /\ Len(r) < 2
            THEN [c EXCEPT !.outcome =
                              [proc |-> "exited", code |-> EXIT_FAILURE]]
            ELSE IF o = "dir"
            THEN ParseFrom([c EXCEPT !.home = <<r[2]>>],
                           SubSeq(r, 3, Len(r)))
            ELSE IF o = "run-command"
            THEN ParseFrom([c EXCEPT !.commands = <<r[2]>>],
                           SubSeq(r, 3, Len(r)))
            ELSE ParseFrom([c EXCEPT !.flags = SetFlag(o, c.flags)], Tail(r))

ParseResult(r) == ParseFrom(ParseStart, r)

\* what the parser of the model has left, in the same form
Observed ==
    [ home |-> StoredString(weechat_home),
      commands |-> StoredString(weechat_startup_commands),
      flags |-> flagV,
      outcome |-> [proc |-> proc, code |-> exitCode] ]

\* the parser is done with the list: it has read it all, or has ended the
\* process
ParserFinished ==
    /\ phase = "init" /\ Cur = "weechat_parse_args" /\ sub = "loop"
    /\ rest = <<>> \/ proc = "exited"

\* the list q in the order given by the permutation f of its indices
Permuted(q, f) == [k \in DOMAIN q |-> q[f[k]]]

Recognized(a) == OptionOf(a) # "other"
\* two flags conflict when they write the same thing: the same value option
\* twice, or two options that each display something and exit
NoConflict(q) ==
    \A j, k \in DOMAIN q :
       j # k =>
          /\ ~(OptionOf(q[j]) \in ValueOptions
                  /\ OptionOf(q[j]) = OptionOf(q[k]))
          /\ ~(OptionOf(q[j]) \in InfoOptions
                  /\ OptionOf(q[k]) \in InfoOptions)

\* C13 (as stated): for every list of recognized flags without conflicting
\* flags, every permutation of the list leaves the same configuration and
\* ends the same way as the list itself.
C13_OrderIndependent ==
    (ParserFinished /\ NoConflict(argv) /\ \A k \in DOMAIN argv :
                                              Recognized(argv[k])) =>
       \A f \in Permutations(DOMAIN argv) :
          ParseResult(Permuted(argv, f)) = Observed

\* every -d/--dir/-r/--run-command of the list r is followed by its value
RECURSIVE WellFormed(_)
WellFormed(r) ==
    IF r = <<>> THEN TRUE
    ELSE IF OptionOf(r[1]) \in ValueOptions
    THEN Len(r) >= 2 /\ WellFormed(SubSeq(r, 3, Len(r)))
    ELSE WellFormed(Tail(r))

\* the whole options of a well-formed list: a value option with its value,
\* or one argument
RECURSIVE UnitsOf(_)
UnitsOf(r) ==
    IF r = <<>> THEN <<>>
    ELSE IF OptionOf(r[1]) \in ValueOptions
    THEN <<SubSeq(r, 1, 2)>> \o UnitsOf(SubSeq(r, 3, Len(r)))
    ELSE <<SubSeq(r, 1, 1)>> \o UnitsOf(Tail(r))

RECURSIVE Flatten(_)
Flatten(u) == IF u = <<>> THEN <<>> ELSE Head(u) \o Flatten(Tail(u))

\* C13 (amended): for every list in which each -d/--dir/-r/--run-command is
\* followed by its value and occurs at most once, every reordering of the
\* whole options (a value staying right after its flag) ends the same way;
\* it also leaves the same configuration when the list has no option that
\* displays something and exits (-c, -h, -l, -v).
C13_UnitOrderIndependent ==
    (/\ ParserFinished
     /\ WellFormed(argv)
     /\ Len(ValuesOf("dir", argv)) <= 1
     /\ Len(ValuesOf("run-command", argv)) <= 1) =>
       LET u == UnitsOf(argv)
           info == \E k \in DOMAIN u : OptionOf(u[k][1]) \in InfoOptions
       IN \A f \in Permutations(DOMAIN u) :
             LET q == Flatten(Permuted(u, f))
             IN /\ ParseResult(q).outcome = Observed.outcome
                /\ ~info => ParseResult(q) = Observed

C13_Witness ==
    /\ ParserFinished
    /\ argv = <<Str("-d"), PlainPath, Str("--upgrade")>>
    /\ Observed = ParseResult(<<Str("--upgrade"), Str("-d"), PlainPath>>)
    /\ Observed.home = <<PlainPath>> /\ weechat_upgrading = 1

----------------------------------------------------------------------------
(* C14 *)

\* the main thread is in weechat_create_home_dir (or about to enter it), or
\* the process has ended there
InHomeDir == phase = "init" /\ Cur = "weechat_create_home_dir"

\* the environment value e is absent: unset, or empty
EnvAbsent(e) == e = {} \/ e = {EmptyStr}

\* weechat_home was made from the path v: it holds v, with a leading ~
\* replaced by the HOME that was read; or making it was fatal
MadeFrom(v) ==
    \/ /\ proc = "exited" /\ exitCode = EXIT_FAILURE
       /\ weechat_home = NULL
    \/ /\ weechat_home # NULL
       /\ IF v # EmptyStr /\ v[1] = "~"
          THEN \E h \in EnvHome \ {{}} :
                  /\ ptr_home = Got(h)
                  /\ \A x \in h : heap[weechat_home].val = x \o Tail(v)
          ELSE heap[weechat_home].val = v

\* C14: the home directory is the value of -d/--dir if one was given, and
\* then neither the environment nor the default is consulted; else it is
\* made from the environment variable WEECHAT_HOME if that is set and not
\* empty, and the default is not consulted; else it is made from the
\* compile-time default, and an empty default ends the process with the
\* failure code.  An empty WEECHAT_HOME goes the way of an unset one.
C14_HomePriority ==
    InHomeDir =>
       LET explicit == ValuesOf("dir", argv)
           envDone == sub # "" \/ proc = "exited"
           defaultDone == sub \in {"stat", "mkdir"}
                             \/ (sub = "default" /\ proc = "exited")
       IN /\ explicit # <<>> =>
                /\ ptr_weechat_home = NotRead
                /\ config_weechat_home = NotRead
                /\ StoredString(weechat_home) = LastOf(explicit)
          /\ (explicit = <<>> /\ envDone) =>
                /\ ptr_weechat_home # NotRead
                /\ IF EnvAbsent(ptr_weechat_home[1])
                   THEN /\ ~defaultDone =>
                              (weechat_home = NULL
                                  /\ config_weechat_home = NotRead)
                        /\ defaultDone =>
                              /\ config_weechat_home # NotRead
                              /\ IF config_weechat_home[1] = EmptyStr
                                 THEN /\ proc = "exited"
                                      /\ exitCode = EXIT_FAILURE
                                      /\ weechat_home = NULL
                                 ELSE MadeFrom(config_weechat_home[1])
                   ELSE /\ config_weechat_home = NotRead
                        /\ \A v \in ptr_weechat_home[1] : MadeFrom(v)

\* WEECHAT_HOME is set and empty: the home is made from the default
C14_Witness ==
    /\ InHomeDir /\ sub = "stat"
    /\ argv = <<>>
    /\ ptr_weechat_home = Got({EmptyStr})
    /\ config_weechat_home = Got(<<"~", "/.weechat">>)
    /\ heap[weechat_home].val = UserHome \o <<"/.weechat">>

----------------------------------------------------------------------------
(* C15 *)

\* the path the home directory comes from: the value of -d/--dir, else the
\* environment value, else the compile-time default
OriginPath ==
    LET explicit == ValuesOf("dir", argv)
    IN IF explicit # <<>> THEN LastOf(explicit)
       ELSE IF ptr_weechat_home # NotRead /\ ~EnvAbsent(ptr_weechat_home[1])
       THEN <<CHOOSE v \in ptr_weechat_home[1] : TRUE>>
       ELSE config_weechat_home

\* weechat_create_home_dir is past the choice of the path
HomeChosen == InHomeDir /\ sub \in {"stat", "mkdir"}

\* C15: whatever the origin of the home path (-d/--dir, environment,
\* default), weechat_home holds it with a leading ~ replaced by the value of
\* HOME; when HOME is unset and the path starts with ~ the process has ended
\* with the failure code.
C15_ExpandedWhateverOrigin ==
    /\ HomeChosen => \A v \in Range(OriginPath) : MadeFrom(v)
    /\ (InHomeDir /\ ptr_home = Got({})) =>
          (proc = "exited" /\ exitCode = EXIT_FAILURE)

----------------------------------------------------------------------------
(* C16 *)

FailureExit == proc = "exited" /\ exitCode = EXIT_FAILURE

\* weechat_create_home_dir has returned: the main thread is past it
HomeDirStatement == Index(InitProgram, "weechat_create_home_dir")
HomeDirReturned == phase # "init" \/ ip > HomeDirStatement

\* C16: when stat finds something that is not a directory at the home path
\* the process has ended with the failure code and util_mkdir was not called;
\* when stat finds nothing, util_mkdir is the next call, and when
\* util_mkdir fails the process has ended with the failure code; when
\* weechat_create_home_dir has returned the directory was created or found.
C16_NotADirectory ==
    /\ home_stat = "file" =>
          /\ FailureExit
          /\ ~InCalls("util_mkdir")
          /\ err # <<>> /\ err[Len(err)] = "home is not a directory"
    /\ home_stat = "absent" =>
          /\ InHomeDir /\ sub = "mkdir"
          /\ proc = "running" => ~InCalls("util_mkdir")
          /\ proc # "running" =>
                (FailureExit /\ InCalls("util_mkdir")
                    /\ err[Len(err)] = "cannot create directory")
    /\ (InHomeDir /\ InCalls("util_mkdir")) =>
          (FailureExit /\ err[Len(err)] = "cannot create directory")
    /\ HomeDirReturned => home_stat = "dir"

C16_Witness ==
    /\ home_stat = "file" /\ FailureExit
    /\ InCalls("stat") /\ ~InCalls("util_mkdir")

----------------------------------------------------------------------------
(* C17 *)

\* log_init and the steps of weechat_init that follow it
StepsFromLogInit ==
    { "log_init", "plugin_api_init", "secure_read", "config_weechat_read",
      "network_init_gnutls", "gui_init_cb", "upgrade_weechat_load",
      "plugin_init" }

\* the statements of weechat_init after the current one
LaterStatements == {InitProgram[k] : k \in (ip + 1)..Len(InitProgram)}

\* C17: once log_init or a later step has been entered (as in every state
\* after weechat_init has returned), weechat_home is
\* set (and not released as long as weechat_shutdown has not been called)
\* and the home path is a directory; when the parser or
\* weechat_create_home_dir has reported an error, the process has ended with
\* the failure code inside that step and no later statement of weechat_init
\* was entered.
C17_HomeBeforeFiles ==
    /\ (phase # "init" \/ \E n \in StepsFromLogInit : InCalls(n)) =>
          /\ weechat_home # NULL
          /\ shutdown_args = <<>> => heap[weechat_home].frees = 0
          /\ home_stat = "dir"
          /\ HomeDirReturned
    /\ err # <<>> =>
          /\ FailureExit
          /\ phase = "init"
          /\ Cur \in {"weechat_parse_args", "weechat_create_home_dir"}
          /\ \A n \in LaterStatements : ~InCalls(n)

C17_Witness ==
    /\ InCalls("log_init") /\ InCalls("plugin_init")
    /\ heap[weechat_home].val = UserHome \o <<"/e">>
    /\ home_stat = "dir"

----------------------------------------------------------------------------
(* C18 *)

\* secure_init or config_weechat_init has returned 0 and weechat_init has
\* called weechat_shutdown (EXIT_FAILURE, 0)
InitFailed ==
    /\ phase = "init"
    /\ Cur \in {"secure_init", "config_weechat_init"}
    /\ shutdown_args # <<>>

\* the subsystems initialized before the current statement of weechat_init
\* that have a teardown step
InitializedBefore ==
    {s \in EndSubsystems :
        \E k \in 1..(ip - 1) : InitProgram[k] = InitOf(s)}

\* C18: when secure_init or config_weechat_init fails, the process has ended
\* with the failure code, the subsystems already initialized (hooks, hdata,
\* key bindings, and the secured data when config_weechat_init is the one
\* that fails) were torn down, in the reverse order of their init, before
\* the exit, and no later statement of weechat_init was entered.
C18_TeardownOnInitFailure ==
    InitFailed =>
       /\ FailureExit
       /\ \A n \in LaterStatements : ~InCalls(n)
       /\ \A s \in InitializedBefore : InCalls(TeardownOf(s))
       /\ ReverseOrder(InitializedBefore)

----------------------------------------------------------------------------
(* C19 *)

----------------------------------------------------------------------------
(* C20 *)

\* C20: when the parser or weechat_create_home_dir has ended the process
\* with the failure code, every block allocated since weechat_parse_args was
\* entered (the argv[0] image, the home path, the startup commands) has been
\* released.
C20_ParserMemoryReleased ==
    (/\ phase = "init" /\ FailureExit
     /\ Cur \in {"weechat_parse_args", "weechat_create_home_dir"}) =>
       /\ \A p \in {weechat_argv0, weechat_home, weechat_startup_commands}
                      \ {NULL} : heap[p].frees = 1
       /\ \A p \in DOMAIN heap \ {weechat_local_charset} : heap[p].frees = 1

----------------------------------------------------------------------------
(* C21 *)

QuitHandlers == {"weechat_sighup", "weechat_sigquit", "weechat_sigterm"}

\* the signal each handler is written for
OwnSignal(h) ==
    CASE h = "weechat_sighup" -> SIGHUP
      [] h = "weechat_sigquit" -> SIGQUIT
      [] h = "weechat_sigterm" -> SIGTERM

\* a handler has run in this step: the record of the signals delivered to
\* a handler has moved
HandlerRan ==
    /\ <<last_signal, prev_signal>>' # <<last_signal, prev_signal>>
    /\ prev_signal' = last_signal
    /\ last_signal' \in Signals
    /\ sigDisp[last_signal'] \in QuitHandlers

\* everything of the lifecycle but weechat_quit_signal
OtherState ==
    <<weechat_quit, weechat_upgrading, weechat_upgrade_count, weechat_home,
      weechat_argv0, weechat_local_charset, weechat_startup_commands,
      weechat_auto_load_plugins, weechat_plugin_no_dlclose,
      weechat_no_gnutls, weechat_no_gcrypt, heap, sigDisp, posV, calls,
      exitV, err, upgrade_load_rc, handoff, envV>>

\* C21: a step in which a handler runs stores the handler's own signal in
\* weechat_quit_signal and changes nothing else; every step that changes
\* weechat_quit_signal is such a step, and none stores 0.
C21_HandlerOnlyStores ==
    [][/\ HandlerRan =>
             /\ weechat_quit_signal' = OwnSignal(sigDisp[last_signal'])
             /\ weechat_quit_signal' = last_signal'
             /\ UNCHANGED OtherState
       /\ weechat_quit_signal' # weechat_quit_signal =>
             /\ HandlerRan
             /\ weechat_quit_signal' # 0]_vars

\* SIGQUIT reached weechat_sigquit in the main loop of an upgraded session:
\* the signal is recorded, the upgrade state and the home path are as
\* weechat_init left them
C21_Witness ==
    /\ phase = "main"
    /\ weechat_quit_signal = SIGQUIT
    /\ last_signal = SIGQUIT
    /\ weechat_quit = 0
    /\ weechat_upgrading # 0
    /\ weechat_upgrade_count = 1
    /\ weechat_home # NULL
    /\ heap[weechat_home].frees = 0

----------------------------------------------------------------------------
(* C22 *)

\* what has to be over before the upgrade is finished
BeforeUpgradeEnd ==
    { "weechat_startup_message", "command_startup(0)", "plugin_init",
      "command_startup(1)" }

\* the call made last
LastCall == IF calls = <<>> THEN "none" ELSE calls[Len(calls)]

\* C22: gui_layout_window_apply is called only when weechat_upgrading is 0
\* and upgrade_weechat_end only when it is not, never both; at the time
\* upgrade_weechat_end is called, the startup message, the commands run
\* before the plugins, plugin_init and the commands run after the plugins
\* have been called; and once weechat_init has returned exactly one of the
\* two has been called, the one weechat_upgrading selects.
C22_OneFinishingAction ==
    \A done \in {Range(calls)} :
       /\ "gui_layout_window_apply" \in done =>
             (weechat_upgrading = 0 /\ "upgrade_weechat_end" \notin done)
       /\ "upgrade_weechat_end" \in done =>
             (weechat_upgrading # 0 /\ "gui_layout_window_apply" \notin done)
       /\ LastCall = "upgrade_weechat_end" => BeforeUpgradeEnd \subseteq done
       /\ LastCall \in BeforeUpgradeEnd => "upgrade_weechat_end" \notin done
       /\ InitDone =>
             IF weechat_upgrading = 0
             THEN "gui_layout_window_apply" \in done
             ELSE "upgrade_weechat_end" \in done

\* weechat_init has returned from an upgrade: the layout was left alone and
\* the session files are gone
C22_Witness ==
    /\ InitReturned
    /\ weechat_upgrading # 0
    /\ InCalls("upgrade_weechat_end")
    /\ ~InCalls("gui_layout_window_apply")
    /\ handoff = FALSE

----------------------------------------------------------------------------
(* C23 *)

\* the calls that release a store: the configuration, the secured data, the
\* key bindings, the hooks, the hdata
FreeSteps ==
    { "config_weechat_free", "secure_free", "config_file_free_all",
      "gui_key_end", "unhook_all", "hdata_end" }

\* the calls that are made or not, depending on the option and the caller
ConditionalSteps == {"config_weechat_write", "gui_end_cb"}

EndSteps ==
    { "gui_layout_store_on_exit", "plugin_end", "config_weechat_write",
      "secure_write", "gui_end_cb" } \cup FreeSteps

\* the place of each call in the order the teardown is to follow; the frees
\* share the last place
StepRank(n) ==
    CASE n = "gui_layout_store_on_exit" -> 1
      [] n = "plugin_end" -> 2
      [] n = "config_weechat_write" -> 3
      [] n = "secure_write" -> 4
      [] n = "gui_end_cb" -> 5
      [] n \in FreeSteps -> 6

\* the calls that come after n in that order
LaterSteps ==
    [n \in EndSteps |-> {m \in EndSteps : StepRank(m) > StepRank(n)}]

\* the calls that come before n in that order and are always made
EarlierSteps ==
    [n \in EndSteps |->
        {m \in EndSteps \ ConditionalSteps : StepRank(m) < StepRank(n)}]

\* C23: in weechat_end the layout is stored first, then the plugins are
\* ended, then the configuration is written when and only when
\* config_look_save_config_on_exit is on, then the secured data are written
\* whatever the option, then the callback (when one is given) is called;
\* every free of a store comes after all of these, so no store is freed
\* before it is written.  At the time any of these calls is made, the
\* unconditional calls that come before it in this order have been made and
\* none of those that come after it has; when weechat_end has returned they
\* have all been made.
C23_SaveThenFree ==
    IF phase \in {"init", "main"}
    THEN LastCall \notin EndSteps
    ELSE \A done \in {Range(calls)} :
            /\ \A last \in {LastCall} \cap EndSteps :
                  /\ LaterSteps[last] \cap done = {}
                  /\ EarlierSteps[last] \subseteq done
            /\ "config_weechat_write" \in done => save_config_on_exit = TRUE
            /\ "secure_write" \in done =>
                  ("config_weechat_write" \in done
                      <=> save_config_on_exit = TRUE)
            /\ EndDone => (EndSteps \ ConditionalSteps) \subseteq done

\* weechat_end has returned, the configuration was written because the
\* option is on, and the callback was called
C23_Witness ==
    /\ EndDone
    /\ save_config_on_exit = TRUE
    /\ InCalls("config_weechat_write")
    /\ InCalls("gui_end_cb")
    /\ InCalls("secure_free")
    /\ InCalls("config_weechat_free")

----------------------------------------------------------------------------
(* C24 *)

\* the flag is set (the flags are written by weechat_parse_args only, and
\* never cleared once an option has set them) and the init call it is about
\* has been made: the call was made after weechat_parse_args was entered,
\* hence after the option was read
SetWhenCalled(flag, init) ==
    (flag # 0 /\ InCalls(init)) =>
       /\ InCalls("weechat_parse_args")
       /\ Pos("weechat_parse_args") < Pos(init)

\* C24: whenever an option of the command line has set weechat_no_gcrypt,
\* weechat_no_gnutls or weechat_plugin_no_dlclose, the init call the flag is
\* about (network_init_gcrypt, network_init_gnutls, plugin_init) was made
\* with the flag already set.
C24_FlagSetBeforeInit ==
    /\ SetWhenCalled(weechat_no_gcrypt, "network_init_gcrypt")
    /\ SetWhenCalled(weechat_no_gnutls, "network_init_gnutls")
    /\ SetWhenCalled(weechat_plugin_no_dlclose, "plugin_init")

====
